---- MODULE Spec2Model ----
(***************************************************************************)
(* MARS swarm: the Thought data model, the swarm evaluation pass, the      *)
(* guided thought generator, the router, the compiled stage graph and the  *)
(* state merge of the diagnostic runner.                                   *)
(*                                                                         *)
(* Thoughts are Python dicts that the swarm mutates in place, so the model *)
(* keeps a heap of Thought records and lists of addresses into it.         *)
(* Scores are hundredths (0.85 is 85).  A timestamp is a natural number;   *)
(* the ISO strings of the code compare lexicographically in time order.    *)
(***************************************************************************)
EXTENDS Integers, Sequences, FiniteSets, TLC

VARIABLES
    heap,       \* address -> Thought record (the dict objects)
    state,      \* the shared MARSState of the graph run
    node,       \* the stage the graph runs next
    prev,       \* the stage that completed last ("START" before the first)
    status,     \* "running", "error" (a stage raised), "recursion_limit"
    steps,      \* supersteps taken in this invocation
    pc,         \* position inside swarm_node: "idle" or "loop"
    working,    \* swarm_node: working_thoughts
    existing,   \* swarm_node: existing_ids
    queue,      \* swarm_node: injection_queue being built
    idx,        \* swarm_node: position of the list iterator
    inputN,     \* swarm_node: number of Thoughts after deduplication
    nEval,      \* evaluation calls made in the current pass
    nGen,       \* generation calls made by nested generators in the pass
    last,       \* swarm_node: the latest evaluation (address, response, decision)
    delta,      \* the delta the last completed stage returned
    issued,     \* number of gen- ids the factory has produced
    clock,      \* datetime.utcnow()
    fin,        \* pure-function harness: the input (a list, or a response)
    fq,         \* pure-function harness: the injection_queue input, or the Thoughts before
    fout,       \* pure-function harness: first result
    fout2,      \* pure-function harness: result of the second application
    fpc         \* pure-function harness: "in", "once", "twice"

vars == <<heap, state, node, prev, status, steps, pc, working, existing, queue,
          idx, inputN, nEval, nGen, last, delta, issued, clock, fin, fq, fout, fout2, fpc>>

graphVars == <<state, node, prev, status, steps, delta>>
swarmVars == <<pc, working, existing, queue, idx, inputN, nEval, nGen, last>>
fnVars == <<fin, fq, fout, fout2, fpc>>

----------------------------------------------------------------------------
(* Bounds of the model *)

\* Thoughts in the state an invocation starts from
MaxInit == 1
\* Thoughts generated in one run: the runs explored are those in which the
\* factory builds no more than this number of gen- Thoughts
MaxGenIds == 5
\* the clock of the evaluations of one run stays below this value (the clock
\* starts after the last stamp of the seed files, at 2 in a graph run and at 3
\* in the diagnostic runner, and every evaluation advances it by one)
MaxClock == 7
\* supersteps explored per invocation (LangGraph stops at its recursion limit)
MaxSupersteps == 5
\* length of the lists the pure functions are applied to
MaxLen == 3
\* length of the lists of the states and updates given to merge_state_updates
MaxMergeLen == 2
\* initial_relevance given to the factory ranges from -RelevanceMargin to
\* 100 + RelevanceMargin hundredths
RelevanceMargin == 50
\* Thoughts in the state the thought generator is invoked on
MaxGenInit == 3
\* max_steps given to the thought generator ranges over -MaxStepsArg..MaxStepsArg
MaxStepsArg == 7
\* swarm passes chained by the merge of their deltas
MaxPasses == 2
\* seed files the diagnostic runner loads
MaxSeeds == 2

----------------------------------------------------------------------------
(* Program constants *)

\* StaticRelevanceEvaluator.THRESHOLD = 0.85
THRESHOLD == 85
\* relevance_score > 0.70 in swarm_node
InjectThreshold == 70
\* relevance_score = 0.85 if is_applicable
ScoreApplicable == 85
\* ... else 0.42
ScoreOther == 42
\* DEFAULT_RELEVANCE_NEW = 0.68
DEFAULT_RELEVANCE_NEW == 68
\* MAX_GUIDED_STEPS = 4
MAX_GUIDED_STEPS == 4
\* create_thought_generator_node(llm, max_steps=2) inside the swarm
SwarmMaxSteps == 2
\* len(GUIDED_PROMPT_SEQUENCE)
GuidedLen == 6
\* "1970-01-01T00:00:00", the default of t.get("last_evaluated", ...)
EPOCH == 0
\* last_evaluated = None (the key is present and holds None)
NoneTs == -1
\* the dict has no last_evaluated key
MissingTs == -2
\* the dict has no relevance_score key
MissingScore == -1000

PositiveWords == {"applicable", "yes", "relevant", "supports"}
ConflictWords == {"mismatch", "conflict", "contradict", "outdated"}

Nodes == {"orchestrator", "summary", "thought_generator", "memory_swarm"}

Min(a, b) == IF a < b THEN a ELSE b
Max(a, b) == IF a > b THEN a ELSE b

----------------------------------------------------------------------------
(* Thought ids and the factory *)

PrimeId(n) == <<"prime", n>>
GenId(n) == <<"gen", n>>
IsPrime(id) == id[1] = "prime"

\* prefix = "prime" if is_seed else "gen", followed by the fresh part of the id
CreateId(is_seed, n) == IF is_seed THEN PrimeId(n) ELSE GenId(n)

\* create_thought: the id with the prefix of is_seed and the fresh part n, the
\* given origins and relevance, last_evaluated None
create_thought(n, origins, initial_relevance, is_seed) ==
    [id |-> CreateId(is_seed, n), score |-> initial_relevance, le |-> NoneTs,
     narr |-> 0, origins |-> origins, is_seed |-> is_seed, absent |-> {}]

\* The keys a seed file must hold to be loaded
RequiredKeys == {"thought_id", "narrative", "meta_narrative"}

\* load_seed_thoughts: the content of every file that holds the required keys
\* is appended as it was parsed.  S is the parsed content of the files: a
\* record whose field absent names the keys the file lacks; relevance_score
\* and last_evaluated of a file without them are MissingScore and MissingTs,
\* is_seed and origins are whatever the file holds, whatever its id
Stored(S) == {t \in S : t.absent \cap RequiredKeys = {}}

----------------------------------------------------------------------------
(* _deduplicate_thoughts *)

\* t.get("last_evaluated", "1970-01-01T00:00:00"): the default only replaces a
\* missing key, a stored None is returned as None
GetLe(t) == IF t.le = MissingTs THEN EPOCH ELSE t.le

\* Position of id in the insertion-ordered dict keys, 0 when absent
PosOf(keys, id) ==
    IF \E i \in 1..Len(keys) : keys[i] = id
    THEN CHOOSE i \in 1..Len(keys) : keys[i] = id
    ELSE 0

\* Sequence s without its element at position p
RemoveAt(s, p) == SubSeq(s, 1, p - 1) \o SubSeq(s, p + 1, Len(s))

\* Faulty variant: a later version replaces the entry by deleting the key and
\* inserting it again, which moves the id to the end of the dict
DedupeStepReinserts(h, d, a) ==
    LET tid == h[a].id
        p == PosOf(d.keys, tid)
        current_ts == GetLe(h[a])
    IN  IF ~d.ok THEN d
        ELSE IF p = 0
        THEN [d EXCEPT !.keys = Append(@, tid), !.vals = Append(@, a)]
        ELSE LET existing_ts == GetLe(h[d.vals[p]])
             IN  IF current_ts = NoneTs \/ existing_ts = NoneTs
                 THEN [d EXCEPT !.ok = FALSE]
                 ELSE IF current_ts > existing_ts
                 THEN [d EXCEPT !.keys = Append(RemoveAt(@, p), tid),
                                !.vals = Append(RemoveAt(@, p), a)]
                 ELSE d

\* Faulty variant: every element is kept, whether its id was met or not
DedupeStepKeepsAll(h, d, a) ==
    IF ~d.ok THEN d
    ELSE [d EXCEPT !.keys = Append(@, h[a].id), !.vals = Append(@, a)]

\* The loop body for element a of the list; d is [ok, keys, vals]:
\* the dict latest_by_id as parallel sequences in insertion order.
\* `current_ts > existing_ts` is only evaluated when tid is already a key, and
\* raises TypeError when either side is None.
DedupeStep(h, d, a) ==
    LET tid == h[a].id
        p == PosOf(d.keys, tid)
        current_ts == GetLe(h[a])
    IN  IF ~d.ok THEN d
        ELSE IF p = 0
        THEN [d EXCEPT !.keys = Append(@, tid), !.vals = Append(@, a)]
        ELSE LET existing_ts == GetLe(h[d.vals[p]])
             IN  IF current_ts = NoneTs \/ existing_ts = NoneTs
                 THEN [d EXCEPT !.ok = FALSE]
                 ELSE IF current_ts > existing_ts
                 THEN [d EXCEPT !.vals[p] = a]
                 ELSE d

RECURSIVE DedupeLoop(_, _, _, _)
DedupeLoop(h, d, list, i) ==
    IF i > Len(list) THEN d
    ELSE DedupeLoop(h, DedupeStep(h, d, list[i]), list, i + 1)

\* Result [ok, val]: ok = FALSE stands for the TypeError, val is the list
\* list(latest_by_id.values())
Dedupe(h, list) ==
    LET d == DedupeLoop(h, [ok |-> TRUE, keys |-> <<>>, vals |-> <<>>], list, 1)
    IN  [ok |-> d.ok, val |-> IF d.ok THEN d.vals ELSE <<>>]

----------------------------------------------------------------------------
(* route_after_memory_swarm *)

\* Faulty variant: the threshold comparison admits equality
route_threshold_inclusive(h, thoughts, injection_queue) ==
    IF Len(thoughts) = 0 THEN "summary"
    ELSE IF h[thoughts[Len(thoughts)]].score = MissingScore THEN "KeyError"
    ELSE IF h[thoughts[Len(thoughts)]].score <= THRESHOLD THEN "thought_generator"
    ELSE "summary"

\* Faulty variant: an empty injection_queue sends a well-scored list back to
\* the generator
route_queue_decides(h, thoughts, injection_queue) ==
    IF Len(thoughts) = 0 THEN "summary"
    ELSE IF h[thoughts[Len(thoughts)]].score = MissingScore THEN "KeyError"
    ELSE IF h[thoughts[Len(thoughts)]].score < THRESHOLD THEN "thought_generator"
    ELSE IF Len(injection_queue) > 0 THEN "summary"
    ELSE "thought_generator"

\* last_thought["relevance_score"] raises KeyError on a dict without the key
route_after_memory_swarm(h, thoughts, injection_queue) ==
    IF Len(thoughts) = 0 THEN "summary"
    ELSE IF h[thoughts[Len(thoughts)]].score = MissingScore THEN "KeyError"
    ELSE IF h[thoughts[Len(thoughts)]].score < THRESHOLD THEN "thought_generator"
    ELSE IF Len(injection_queue) > 0 THEN "summary"
    ELSE "summary"

----------------------------------------------------------------------------
(* The keyword heuristic of swarm_node.  A response is represented by the   *)
(* set of keywords that occur in its lower-cased text.                      *)

Keywords == PositiveWords \cup ConflictWords
Responses == SUBSET Keywords

\* The responses the evaluation calls of a graph run answer with: one of
\* every combination class of the heuristic (no keyword, a positive one, a
\* conflict one, both)
SwarmResponses == {{}, {"yes"}, {"mismatch"}, {"relevant", "conflict"}}

\* is_applicable = any(word in response_text for word in [...])
is_applicable(resp) == \E w \in PositiveWords : w \in resp

\* Faulty variant: a conflict keyword withdraws the applicable score
relevance_score_conflict_lowers(resp) ==
    IF is_applicable(resp) /\ ~(\E w \in ConflictWords : w \in resp)
    THEN ScoreApplicable ELSE ScoreOther

\* relevance_score = 0.85 if is_applicable else 0.42
relevance_score(resp) == IF is_applicable(resp) THEN ScoreApplicable ELSE ScoreOther

\* any(word in response_text for word in ["mismatch", ...])
has_conflict(resp) == \E w \in ConflictWords : w \in resp

\* decision = "inject" if relevance_score > 0.70 else "reframe";
\* if <conflict keyword>: decision = "generate_new"
decision(resp) ==
    LET first == IF relevance_score(resp) > InjectThreshold THEN "inject" ELSE "reframe"
    IN  IF has_conflict(resp) THEN "generate_new" ELSE first

\* Faulty variant: the injection test uses the routing threshold
InjectsAboveRouting(score) == score > THRESHOLD

\* if relevance_score > 0.70: injection_queue.append(thought)
Injects(score) == score > InjectThreshold

----------------------------------------------------------------------------
(* thought_node of the thought generator *)

\* len(GUIDED_PROMPT_SEQUENCE[:max_steps]), a Python slice
ActiveLen(max_steps) ==
    IF max_steps >= 0 THEN Min(max_steps, GuidedLen) ELSE Max(GuidedLen + max_steps, 0)

\* Faulty variant: one of the two being empty is enough to skip generation
GenEarlyExitEither(st) == Len(st.messages) = 0 \/ st.core_context = {}

\* `not state.get("messages") and not state.get("core_context")`
GenEarlyExit(st) == Len(st.messages) = 0 /\ st.core_context = {}

\* Steps the generator can complete: the first failing generation call ends
\* the sequence; none is made on the early exit
GenOutcomes(st, max_steps) ==
    IF GenEarlyExit(st) THEN {0} ELSE 0..ActiveLen(max_steps)

\* Faulty variant: a failed step is skipped and the sequence goes on
GenSkipFailedStep(i, len) == i + 1

\* except Exception: break -- the position of the loop after step i failed is
\* past the end of the active sequence of length len
GenAfterFailure(i, len) == len + 1

\* Generation calls made when k steps succeed: one more when a step failed
GenCalls(st, max_steps, k) ==
    IF GenEarlyExit(st) THEN 0
    ELSE IF k < ActiveLen(max_steps) THEN k + 1 ELSE k

\* Generation calls made by an invocation that raises: none when the log
\* cannot be opened before the first step (logger.append ahead of the loop),
\* c when call c failed and the logger.append of the handler raised in turn
GenRaiseCalls(st, max_steps) ==
    IF GenEarlyExit(st) THEN {0} ELSE 0..ActiveLen(max_steps)

\* Faulty variant: only the first prime is recorded as origin
PrimesFirstOnly(h, thoughts) ==
    LET ps == SelectSeq(thoughts, LAMBDA a : IsPrime(h[a].id))
    IN  IF Len(ps) = 0 THEN <<>> ELSE <<h[ps[1]].id>>

\* [p["thought_id"] for p in primes], primes being the Thoughts of the state
\* whose id starts with "prime-", in state order
Primes(h, thoughts) ==
    LET ps == SelectSeq(thoughts, LAMBDA a : IsPrime(h[a].id))
    IN  [i \in 1..Len(ps) |-> h[ps[i]].id]

\* create_thought(origins=<prime ids>, initial_relevance=DEFAULT_RELEVANCE_NEW,
\* is_seed=False) of a guided step
NewThought(h, st, n) ==
    create_thought(n, Primes(h, st.thoughts), DEFAULT_RELEVANCE_NEW, FALSE)

\* The Thought objects of k successful steps, allocated after heap h
GenObjects(h, st, iss, k) ==
    [i \in 1..k |-> NewThought(h, st, iss + i)]

GenAddrs(h, k) == [i \in 1..k |-> Len(h) + i]

\* return {"messages": new_messages, "thoughts": new_thoughts}
GenDelta(h, k) ==
    [messages |-> [i \in 1..k |-> "thought_generator"], thoughts |-> GenAddrs(h, k)]

----------------------------------------------------------------------------
(* create_agent_node: the delta of a plain agent stage *)

AgentDelta(agent_name) == [messages |-> <<agent_name>>, last_agent |-> agent_name]

----------------------------------------------------------------------------
(* The compiled graph: MARSState channels and the edges of MARSGraph._build *)

StateKeys ==
    {"messages", "core_context", "thoughts", "injection_queue", "active_agent",
     "last_handoff_reason"}

\* Faulty variant: no key has a reducer
NoReducedKeys == {}

\* Keys of MARSState annotated with operator.add
ReducedKeys == {"messages"}

\* A stage's delta written to the channels: the reducer appends, a plain
\* channel takes the last value, a key that is no channel is dropped
ApplyUpdate(st, d) ==
    [k \in StateKeys |->
        IF k \in DOMAIN d
        THEN IF k \in ReducedKeys THEN st[k] \o d[k] ELSE d[k]
        ELSE st[k]]

\* Faulty variant: the summary stage hands back to the swarm
EdgesSummaryToSwarm ==
    {<<"orchestrator", "memory_swarm">>,
     <<"thought_generator", "memory_swarm">>,
     <<"summary", "memory_swarm">>,
     <<"orchestrator", "END">>}

Edges ==
    {<<"orchestrator", "memory_swarm">>,
     <<"thought_generator", "memory_swarm">>,
     <<"summary", "orchestrator">>,
     <<"orchestrator", "END">>}

\* Stages triggered after stage n: an edge to END triggers nothing
Successors(n, h, st) ==
    IF n = "memory_swarm"
    THEN {route_after_memory_swarm(h, st.thoughts, st.injection_queue)}
    ELSE {e[2] : e \in {x \in Edges : x[1] = n}} \ {"END"}

NextNode(n, h, st) ==
    LET s == Successors(n, h, st)
    IN  IF s = {} THEN "END" ELSE CHOOSE x \in s : TRUE

IdsOf(h, list) == {h[list[i]].id : i \in 1..Len(list)}

EmptyDelta == [k \in {} |-> 0]

----------------------------------------------------------------------------
(* swarm_node helpers *)

\* Faulty variant: the evaluation stamps last_evaluated on every Thought
EvaluatedStampsAll(h, a, resp, now) ==
    [x \in DOMAIN h |->
        IF x = a
        THEN [h[x] EXCEPT !.score = relevance_score(resp), !.le = now,
                          !.narr = IF decision(resp) = "reframe" THEN @ + 1 ELSE @]
        ELSE [h[x] EXCEPT !.le = now]]

\* Faulty variant: the evaluation sets the score and leaves last_evaluated
EvaluatedScoreOnly(h, a, resp, now) ==
    LET h1 == [h EXCEPT ![a].score = relevance_score(resp)]
    IN  IF decision(resp) = "reframe" THEN [h1 EXCEPT ![a].narr = @ + 1] ELSE h1

\* Faulty variant: every Thought that is not injected is re-framed, also the
\* one that triggers generation
EvaluatedReframesUnlessInjected(h, a, resp, now) ==
    LET h1 == [h EXCEPT ![a].score = relevance_score(resp), ![a].le = now]
    IN  IF ~Injects(relevance_score(resp)) THEN [h1 EXCEPT ![a].narr = @ + 1] ELSE h1

\* thought["relevance_score"] = ...; thought["last_evaluated"] = utcnow();
\* if decision == "reframe": thought["narrative"] += marker
Evaluated(h, a, resp, now) ==
    LET h1 == [h EXCEPT ![a].score = relevance_score(resp), ![a].le = now]
    IN  IF decision(resp) = "reframe" THEN [h1 EXCEPT ![a].narr = @ + 1] ELSE h1

\* for new_thought in new_thoughts: when its id is not in existing_ids, append
\* it to working_thoughts and add the id; r is [w, ex]
\* Faulty variant: every new Thought is appended, known id or not
RECURSIVE AppendAll(_, _, _, _)
AppendAll(h, r, addrs, i) ==
    IF i > Len(addrs) THEN r
    ELSE AppendAll(h, [w |-> Append(r.w, addrs[i]), ex |-> r.ex \cup {h[addrs[i]].id}],
                   addrs, i + 1)

RECURSIVE AppendNovel(_, _, _, _)
AppendNovel(h, r, addrs, i) ==
    IF i > Len(addrs) THEN r
    ELSE IF h[addrs[i]].id \in r.ex
    THEN AppendNovel(h, r, addrs, i + 1)
    ELSE AppendNovel(h, [w |-> Append(r.w, addrs[i]), ex |-> r.ex \cup {h[addrs[i]].id}],
                     addrs, i + 1)

NoEval == [addr |-> 0, resp |-> {}, decision |-> "none", gen |-> "none"]

\* Faulty variant: the exception of the nested generation leaves swarm_node
NestedFailurePropagates(s) == "error"

\* try: ... thought_gen(state) ... except (ImportError, Exception): print(...)
\* -- the status of the invocation after the nested generation raised
AfterNestedFailure(s) == s

\* How the nested generation went: it raised as a whole, a guided step failed
\* (fewer Thoughts than steps), or every step succeeded
GenResult(triggered, raised, k) ==
    IF ~triggered THEN "none"
    ELSE IF raised THEN "raised"
    ELSE IF k < ActiveLen(SwarmMaxSteps) THEN "partial"
    ELSE "ok"

\* Faulty variant: the two lists of the delta are exchanged
SwarmDeltaListsSwapped(w, q) ==
    [thoughts |-> q, injection_queue |-> w, active_agent |-> "memory_swarm"]

SwarmDelta(w, q) ==
    [thoughts |-> w, injection_queue |-> q, active_agent |-> "memory_swarm"]

\* Faulty variant: the empty pass returns a thoughts key as well
SwarmEmptyDeltaWithThoughts ==
    [thoughts |-> <<>>, injection_queue |-> <<>>, active_agent |-> "memory_swarm"]

SwarmEmptyDelta == [injection_queue |-> <<>>, active_agent |-> "memory_swarm"]

----------------------------------------------------------------------------
(* The graph run *)

InitScores == {50}

\* The seed files of a run: a Thought generated and evaluated earlier, saved
\* with is_seed set, whose id the factory's random id part can repeat
\* (GenId(1)); a prime with the required keys only; a file without narrative,
\* which is not loaded.  Runs from seeds as the factory builds them are those
\* of SpecFactory.
SeedFiles ==
    {[id |-> GenId(1), score |-> 50, le |-> 1, narr |-> 0,
      origins |-> <<PrimeId(9)>>, is_seed |-> TRUE, absent |-> {}],
     [id |-> PrimeId(2), score |-> MissingScore, le |-> MissingTs, narr |-> 0,
      origins |-> <<>>, is_seed |-> FALSE,
      absent |-> {"relevance_score", "last_evaluated", "is_seed", "origin_thought_ids"}],
     [id |-> PrimeId(3), score |-> 50, le |-> NoneTs, narr |-> 0,
      origins |-> <<>>, is_seed |-> TRUE, absent |-> {"narrative"}]}

InitThought == Stored(SeedFiles)

SeqsUpTo(S, n) == UNION {[1..m -> S] : m \in 0..n}

HarnessOff ==
    /\ fin = <<>> /\ fq = <<>> /\ fout = <<>> /\ fout2 = <<>> /\ fpc = "off"

SwarmIdle ==
    /\ pc = "idle" /\ working = <<>> /\ existing = {} /\ queue = <<>>
    /\ idx = 0 /\ inputN = 0 /\ nEval = 0 /\ nGen = 0 /\ last = NoEval

\* MARSGraph.invoke(initial_state): the entry point is the orchestrator
Init ==
    /\ heap \in SeqsUpTo(InitThought, MaxInit)
    /\ state = [messages |-> <<"human">>, core_context |-> {},
                thoughts |-> [i \in 1..Len(heap) |-> i],
                injection_queue |-> <<>>, active_agent |-> "orchestrator",
                last_handoff_reason |-> "None"]
    /\ node = "orchestrator" /\ prev = "START" /\ status = "running" /\ steps = 0
    /\ delta = EmptyDelta
    /\ SwarmIdle
    /\ issued = 0 /\ clock = 2
    /\ HarnessOff

Runnable(n) == status = "running" /\ node = n /\ steps < MaxSupersteps

\* One superstep completes: the delta is written to the channels and the
\* edges (or the router, on the updated state) select the next stage
FinishStage(n, d, h) ==
    LET st == ApplyUpdate(state, d)
    IN  /\ state' = st
        /\ delta' = d
        /\ prev' = n
        /\ node' = IF NextNode(n, h, st) = "KeyError" THEN n ELSE NextNode(n, h, st)
        /\ steps' = steps + 1
        /\ status' = IF NextNode(n, h, st) = "KeyError" THEN "error" ELSE status

\* orchestrator_node
Orchestrator ==
    /\ Runnable("orchestrator")
    /\ FinishStage("orchestrator", AgentDelta("orchestrator"), heap)
    /\ UNCHANGED <<heap, swarmVars, issued, clock, fnVars>>

\* the summary node
Summary ==
    /\ Runnable("summary")
    /\ FinishStage("summary", AgentDelta("summary"), heap)
    /\ UNCHANGED <<heap, swarmVars, issued, clock, fnVars>>

\* chain.invoke raises in a plain agent stage: the invocation fails
AgentRaises ==
    /\ status = "running" /\ node \in {"orchestrator", "summary"}
    /\ steps < MaxSupersteps
    /\ status' = "error"
    /\ UNCHANGED <<heap, state, node, prev, steps, delta, swarmVars, issued, clock, fnVars>>

\* thought_node as a stage of the graph (max_steps = MAX_GUIDED_STEPS)
ThoughtGenerator ==
    /\ Runnable("thought_generator")
    /\ \E k \in GenOutcomes(state, MAX_GUIDED_STEPS) :
          /\ issued + k <= MaxGenIds
          /\ heap' = heap \o GenObjects(heap, state, issued, k)
          /\ issued' = issued + k
          /\ FinishStage("thought_generator", GenDelta(heap, k), heap')
    /\ UNCHANGED <<swarmVars, clock, fnVars>>

\* thought_node raises as a stage of the graph: its log cannot be written
\* (logger.append ahead of the loop, or in the handler of a failed step)
GeneratorRaises ==
    /\ Runnable("thought_generator")
    /\ status' = "error"
    /\ UNCHANGED <<heap, state, node, prev, steps, delta, swarmVars, issued, clock, fnVars>>

\* swarm_node up to the evaluation loop
SwarmBegin ==
    /\ Runnable("memory_swarm") /\ pc = "idle"
    /\ IF Len(state.thoughts) = 0
       THEN /\ FinishStage("memory_swarm", SwarmEmptyDelta, heap)
            /\ working' = <<>> /\ existing' = {} /\ queue' = <<>> /\ idx' = 0
            /\ inputN' = 0 /\ nEval' = 0 /\ nGen' = 0 /\ last' = NoEval
            /\ pc' = "idle"
       ELSE LET d == Dedupe(heap, state.thoughts)
            IN  /\ IF d.ok
                   THEN /\ pc' = "loop" /\ status' = status
                        /\ working' = d.val
                        /\ existing' = IdsOf(heap, d.val)
                        /\ inputN' = Len(d.val)
                        /\ idx' = 1
                   ELSE /\ pc' = "idle" /\ status' = "error"
                        /\ working' = <<>> /\ existing' = {} /\ inputN' = 0
                        /\ idx' = 0
                /\ queue' = <<>> /\ nEval' = 0 /\ nGen' = 0 /\ last' = NoEval
                /\ UNCHANGED <<state, node, prev, steps, delta>>
    /\ UNCHANGED <<heap, issued, clock, fnVars>>

\* One iteration of `for thought in working_thoughts`: the list iterator sees
\* the Thoughts appended to working_thoughts during the loop
SwarmEval ==
    /\ status = "running" /\ pc = "loop" /\ idx <= Len(working)
    /\ clock < MaxClock
    /\ \E resp \in SwarmResponses :
          LET a == working[idx]
              h2 == Evaluated(heap, a, resp, clock)
              gen == decision(resp) = "generate_new"
          IN  /\ queue' = IF Injects(relevance_score(resp)) THEN Append(queue, a) ELSE queue
              /\ \E raised \in IF gen THEN BOOLEAN ELSE {FALSE} :
                 \E k \in IF gen /\ ~raised
                          THEN GenOutcomes(state, SwarmMaxSteps) ELSE {0} :
                 \E c \in IF ~gen THEN {0}
                          ELSE IF raised THEN GenRaiseCalls(state, SwarmMaxSteps)
                          ELSE {GenCalls(state, SwarmMaxSteps, k)} :
                    /\ issued + k <= MaxGenIds
                    /\ heap' = h2 \o GenObjects(h2, state, issued, k)
                    /\ LET r == AppendNovel(heap', [w |-> working, ex |-> existing],
                                            GenAddrs(h2, k), 1)
                       IN  working' = r.w /\ existing' = r.ex
                    /\ issued' = issued + k
                    /\ nGen' = nGen + c
                    /\ status' = IF raised THEN AfterNestedFailure(status) ELSE status
                    /\ last' = [addr |-> a, resp |-> resp, decision |-> decision(resp),
                                gen |-> GenResult(gen, raised, k)]
    /\ idx' = idx + 1
    /\ nEval' = nEval + 1
    /\ clock' = clock + 1
    /\ UNCHANGED <<state, node, prev, steps, delta, pc, inputN, fnVars>>

\* memory_node(state) raises: nothing in swarm_node catches it
SwarmEvalRaises ==
    /\ status = "running" /\ pc = "loop" /\ idx <= Len(working)
    /\ status' = "error"
    /\ last' = [addr |-> working[idx], resp |-> {}, decision |-> "raised", gen |-> "none"]
    /\ UNCHANGED <<heap, state, node, prev, steps, delta, pc, working, existing, queue,
                   idx, inputN, nEval, nGen, issued, clock, fnVars>>

\* The evaluation call returned, and get_thought_logger or log_evaluation
\* raises (the log file cannot be written): the call stands before the update
\* of the Thought and outside any try block
SwarmSinkRaises ==
    /\ status = "running" /\ pc = "loop" /\ idx <= Len(working)
    /\ status' = "error"
    /\ nEval' = nEval + 1
    /\ last' = [addr |-> working[idx], resp |-> {}, decision |-> "sink_raised",
                gen |-> "none"]
    /\ UNCHANGED <<heap, state, node, prev, steps, delta, pc, working, existing, queue,
                   idx, inputN, nGen, issued, clock, fnVars>>

\* The loop is exhausted: swarm_node returns its delta
SwarmEnd ==
    /\ status = "running" /\ pc = "loop" /\ idx > Len(working)
    /\ pc' = "idle"
    /\ FinishStage("memory_swarm", SwarmDelta(working, queue), heap)
    /\ UNCHANGED <<heap, working, existing, queue, idx, inputN, nEval, nGen, last,
                   issued, clock, fnVars>>

\* The superstep budget of the invocation is used up
RecursionLimit ==
    /\ status = "running" /\ node \in Nodes /\ pc = "idle"
    /\ steps = MaxSupersteps
    /\ status' = "recursion_limit"
    /\ UNCHANGED <<heap, state, node, prev, steps, delta, swarmVars, issued, clock, fnVars>>

Next ==
    \/ Orchestrator
    \/ Summary
    \/ AgentRaises
    \/ ThoughtGenerator
    \/ GeneratorRaises
    \/ SwarmBegin
    \/ SwarmEval
    \/ SwarmEvalRaises
    \/ SwarmSinkRaises
    \/ SwarmEnd
    \/ RecursionLimit

Spec == Init /\ [][Next]_vars

\* Thoughts as the factory returns them: a seed or a generated one, not yet
\* evaluated
FactoryThought ==
    {create_thought(1, <<>>, r, is_seed) : r \in InitScores, is_seed \in BOOLEAN}

\* MARSGraph.invoke on a state whose Thoughts all come from the factory
InitFactory ==
    /\ heap \in SeqsUpTo(FactoryThought, MaxInit)
    /\ state = [messages |-> <<"human">>, core_context |-> {},
                thoughts |-> [i \in 1..Len(heap) |-> i],
                injection_queue |-> <<>>, active_agent |-> "orchestrator",
                last_handoff_reason |-> "None"]
    /\ node = "orchestrator" /\ prev = "START" /\ status = "running" /\ steps = 0
    /\ delta = EmptyDelta
    /\ SwarmIdle
    /\ issued = 0 /\ clock = 2
    /\ HarnessOff

SpecFactory == InitFactory /\ [][Next]_vars

\* A run of the graph that is never suspended: the runtime goes on taking
\* steps as long as a stage or a loop iteration is ready
SpecLive == Spec /\ WF_vars(Next)

----------------------------------------------------------------------------
(* Pure functions applied to inputs drawn from bounded sets *)

GraphOff ==
    /\ state = [messages |-> <<>>, core_context |-> {}, thoughts |-> <<>>,
                injection_queue |-> <<>>, active_agent |-> "orchestrator",
                last_handoff_reason |-> "None"]
    /\ node = "END" /\ prev = "START" /\ status = "off" /\ steps = 0
    /\ delta = EmptyDelta
    /\ SwarmIdle
    /\ issued = 0 /\ clock = 3

IdentityList(n) == [i \in 1..n |-> i]

\* Thoughts given to _deduplicate_thoughts: two ids, every kind of
\* last_evaluated, the score telling versions of one id apart
DedupeThought ==
    [id : {PrimeId(1), GenId(1)}, score : {42, 85},
     le : {MissingTs, NoneTs, 1, 2}, narr : {0}]

InitDedupe ==
    /\ heap \in SeqsUpTo(DedupeThought, MaxLen)
    /\ fin = IdentityList(Len(heap))
    /\ fq = <<>> /\ fout = <<>> /\ fout2 = <<>> /\ fpc = "in"
    /\ GraphOff

\* unique = _deduplicate_thoughts(thoughts)
DedupeOnce ==
    /\ fpc = "in"
    /\ fout' = Dedupe(heap, fin)
    /\ fpc' = "once"
    /\ UNCHANGED <<heap, graphVars, swarmVars, issued, clock, fin, fq, fout2>>

\* _deduplicate_thoughts(unique); the TypeError of the first call propagates
DedupeTwice ==
    /\ fpc = "once"
    /\ fout2' = IF fout.ok THEN Dedupe(heap, fout.val) ELSE fout
    /\ fpc' = "twice"
    /\ UNCHANGED <<heap, graphVars, swarmVars, issued, clock, fin, fq, fout>>

NextDedupe == DedupeOnce \/ DedupeTwice

SpecDedupe == InitDedupe /\ [][NextDedupe]_vars

\* States given to route_after_memory_swarm: scores around the threshold, and
\* a dict loaded without a relevance_score
RouteScores == {0, 42, 68, 84, 85, 86, 100, MissingScore}

RouteThought == [id : {PrimeId(1)}, score : RouteScores, le : {NoneTs}, narr : {0}]

InitRoute ==
    /\ heap \in SeqsUpTo(RouteThought, MaxLen)
    /\ fin = IdentityList(Len(heap))
    /\ fq \in {<<>>} \cup {<<a>> : a \in 1..Len(heap)}
    /\ fout = <<>> /\ fout2 = <<>> /\ fpc = "in"
    /\ GraphOff

RouteApply ==
    /\ fpc = "in"
    /\ fout' = route_after_memory_swarm(heap, fin, fq)
    /\ fpc' = "once"
    /\ UNCHANGED <<heap, graphVars, swarmVars, issued, clock, fin, fq, fout2>>

NextRoute == RouteApply

SpecRoute == InitRoute /\ [][NextRoute]_vars

\* One evaluation of swarm_node's loop body on the first of two Thoughts: every
\* keyword combination of the response, several earlier scores of both
EvalScores == {0, 42, 68, 70, 85, 100}

\* The content of the message an evaluation call returns: None, the empty
\* string, or a text with the keywords that occur in it
ContentNone == [kind |-> "None", words |-> {}]
ContentEmpty == [kind |-> "empty", words |-> {}]
ContentText(w) == [kind |-> "text", words |-> w]

EvalContents == {ContentNone, ContentEmpty} \cup {ContentText(w) : w \in Responses}

\* _safe_extract_content(eval_msg).lower(), as the keywords of the text:
\* `getattr(last_msg, 'content', ...) or ""` turns None into the empty string
safe_extract_content(c) == IF c.kind \in {"None", "empty"} THEN {} ELSE c.words

\* eval_result of memory_node: the node of create_agent_node always returns
\* {"messages": [response]}, one message
InitEval ==
    /\ heap \in {<<t, u>> :
                    t \in [id : {PrimeId(1)}, score : EvalScores, le : {NoneTs, 1},
                           narr : {0}],
                    u \in [id : {PrimeId(2)}, score : EvalScores, le : {1}, narr : {0}]}
    /\ delta \in {[messages |-> <<c>>] : c \in EvalContents}
    /\ fin = {}
    /\ fq = heap
    /\ fout = <<>> /\ fout2 = <<>> /\ fpc = "in"
    /\ state = [messages |-> <<>>, core_context |-> {}, thoughts |-> <<>>,
                injection_queue |-> <<>>, active_agent |-> "orchestrator",
                last_handoff_reason |-> "None"]
    /\ node = "END" /\ prev = "START" /\ status = "off" /\ steps = 0
    /\ SwarmIdle
    /\ issued = 0 /\ clock = 3

\* The loop body of swarm_node for the first Thought: `continue` when the
\* result has no messages, else the keyword heuristic on the last message
EvalApply ==
    /\ fpc = "in"
    /\ IF Len(delta.messages) = 0
       THEN /\ heap' = heap /\ fin' = fin
            /\ fout' = [decision |-> "skip", queue |-> <<>>, generates |-> FALSE]
       ELSE LET response_text == safe_extract_content(delta.messages[Len(delta.messages)])
            IN  /\ fin' = response_text
                /\ heap' = Evaluated(heap, 1, response_text, clock)
                /\ fout' = [decision |-> decision(response_text),
                            queue |-> IF Injects(relevance_score(response_text))
                                      THEN <<1>> ELSE <<>>,
                            generates |-> decision(response_text) = "generate_new"]
    /\ fpc' = "once"
    /\ UNCHANGED <<graphVars, swarmVars, issued, clock, fq, fout2>>

NextEval == EvalApply

SpecEval == InitEval /\ [][NextEval]_vars

----------------------------------------------------------------------------
(* merge_state_updates of the diagnostic runner.  A Python value is a record *)
(* [isList, items]: a list with its items, or any other object as one item.  *)
(* A dict is a function from the keys it holds to such values.               *)

PyList(items) == [isList |-> TRUE, items |-> items]
PyObj(x) == [isList |-> FALSE, items |-> <<x>>]

\* key in ("messages", "thoughts", "injection_queue")
MergeListKeys == {"messages", "thoughts", "injection_queue"}

\* The keys of MARSState and of the deltas the stages return, in the order
\* update.items() is walked (the keys are handled independently)
MergeKeyOrder ==
    <<"messages", "thoughts", "injection_queue", "active_agent", "last_agent",
      "core_context", "last_handoff_reason">>

\* d[k] = v on a dict
SetKey(d, k, v) == [x \in (DOMAIN d) \cup {k} |-> IF x = k THEN v ELSE d[x]]

\* d.get(k, default)
DictGet(d, k, default) == IF k \in DOMAIN d THEN d[k] ELSE default

\* Faulty variant: new_state is the original dict itself, not a copy of it
MergeCopyAlias(original) ==
    [orig |-> original, new |-> original, same |-> TRUE, ok |-> TRUE]

\* new_state = original.copy(): a second dict holding the same values.  m.orig
\* is the caller's dict, m.new the dict being built, m.same tells whether the
\* two are one object, m.ok turns FALSE when the call raises.
MergeCopy(original) ==
    [orig |-> original, new |-> original, same |-> FALSE, ok |-> TRUE]

\* new_state[key] = v: the caller's dict changes with it when it is the same object
MergeAssign(m, k, v) ==
    [m EXCEPT !.new = SetKey(m.new, k, v),
              !.orig = IF m.same THEN SetKey(m.orig, k, v) ELSE m.orig]

\* Items of s that are not among the items of r, order kept
RECURSIVE NotIn(_, _)
NotIn(s, r) ==
    IF s = <<>> THEN <<>>
    ELSE IF \E i \in DOMAIN r : r[i] = Head(s)
         THEN NotIn(Tail(s), r)
         ELSE <<Head(s)>> \o NotIn(Tail(s), r)

\* Faulty variant: list values are united, entries already present are dropped
MergeStepUnion(m, key, value) ==
    IF value.isList /\ key \in MergeListKeys
    THEN LET old == DictGet(m.new, key, PyList(<<>>))
         IN  MergeAssign(m, key, PyList(old.items \o NotIn(value.items, old.items)))
    ELSE MergeAssign(m, key, value)

\* Faulty variant: a key the state already holds keeps its value (setdefault)
MergeStepKeepsOld(m, key, value) ==
    IF value.isList /\ key \in MergeListKeys
    THEN LET old == DictGet(m.new, key, PyList(<<>>))
         IN  MergeAssign(m, key, PyList(old.items \o value.items))
    ELSE IF key \in DOMAIN m.new THEN m ELSE MergeAssign(m, key, value)

\* The loop body for one (key, value) of the update: `list + list` builds a new
\* list object and raises TypeError when the stored value is not a list
MergeStep(m, key, value) ==
    IF value.isList /\ key \in MergeListKeys
    THEN LET old == DictGet(m.new, key, PyList(<<>>))
         IN  IF old.isList
             THEN MergeAssign(m, key, PyList(old.items \o value.items))
             ELSE [m EXCEPT !.ok = FALSE]
    ELSE MergeAssign(m, key, value)

RECURSIVE MergeLoop(_, _, _)
MergeLoop(m, update, i) ==
    IF i > Len(MergeKeyOrder) \/ ~m.ok THEN m
    ELSE IF MergeKeyOrder[i] \in DOMAIN update
         THEN MergeLoop(MergeStep(m, MergeKeyOrder[i], update[MergeKeyOrder[i]]),
                        update, i + 1)
         ELSE MergeLoop(m, update, i + 1)

\* Result [ok, new_state, original]: the returned dict and the caller's dict as
\* it is after the call
merge_state_updates(original, update) ==
    LET m == MergeLoop(MergeCopy(original), update, 1)
    IN  [ok |-> m.ok, new_state |-> m.new, original |-> m.orig]

\* Thought ids and messages the merged lists hold (Thoughts are held by
\* reference and stand here by their ids)
MergeIds == {"prime-1", "gen-1"}
MergeMsgs == {"ai"}

\* The subsequence of a Thought list chosen by id: an injection_queue over it
QueueOf(t, sub) == SelectSeq(t, LAMBDA x : x \in sub)

\* A function from the keys in ks (those of `present`) to their values
DictOf(present, vals) == [k \in present |-> vals[k]]

\* States handed to merge_state_updates: the keys of MARSState, the
\* injection_queue a selection of the thoughts or (a partial state) not set
MergeStates ==
    {DictOf({"messages", "core_context", "thoughts", "active_agent",
             "last_handoff_reason"} \cup (IF hasq THEN {"injection_queue"} ELSE {}),
            [messages |-> PyList(ms), core_context |-> PyObj("topic"),
             thoughts |-> PyList(ts), injection_queue |-> PyList(QueueOf(ts, sub)),
             active_agent |-> PyObj("orchestrator"),
             last_handoff_reason |-> PyObj("None")]) :
        ms \in SeqsUpTo(MergeMsgs, MaxMergeLen) \ {<<>>},
        ts \in SeqsUpTo(MergeIds, MaxMergeLen),
        sub \in SUBSET MergeIds,
        hasq \in BOOLEAN}

\* Updates handed to merge_state_updates: any subset of the delta keys the
\* stages return; thoughts may hold None instead of a list
MergeUpdates ==
    {DictOf(present,
            [messages |-> PyList(ms),
             thoughts |-> IF none THEN PyObj("None") ELSE PyList(ts),
             injection_queue |-> PyList(QueueOf(ts, sub)),
             active_agent |-> PyObj("memory_swarm"), last_agent |-> PyObj("summary")]) :
        present \in SUBSET {"messages", "thoughts", "injection_queue", "active_agent",
                            "last_agent"},
        ms \in SeqsUpTo(MergeMsgs, 1),
        ts \in SeqsUpTo(MergeIds, MaxMergeLen),
        none \in BOOLEAN,
        sub \in SUBSET MergeIds}

InitMerge ==
    /\ fq \in MergeStates
    /\ fin \in MergeUpdates
    /\ fout = <<>> /\ fout2 = <<>> /\ fpc = "in"
    /\ heap = <<>>
    /\ GraphOff

\* state = merge_state_updates(state, update)
MergeApply ==
    /\ fpc = "in"
    /\ fout' = merge_state_updates(fq, fin)
    /\ fpc' = "once"
    /\ UNCHANGED <<heap, graphVars, swarmVars, issued, clock, fin, fq, fout2>>

NextMerge == MergeApply

SpecMerge == InitMerge /\ [][NextMerge]_vars

----------------------------------------------------------------------------
(* thought_node step by step: one invocation of the generator on a state,    *)
(* with max_steps drawn from a range around the length of the guided         *)
(* sequence.  fin is max_steps, fq the list new_thoughts, fout2 the log of   *)
(* the generation calls, idx the position of the loop, fout the delta.       *)

GenStepArgs == (0 - MaxStepsArg)..MaxStepsArg

\* The Thoughts of the state the generator is invoked on: a seed, a file
\* with a prime- id that says is_seed false and names an origin, a generated
\* Thought saved with is_seed set
GenSeedFiles ==
    {[id |-> PrimeId(1), score |-> 50, le |-> NoneTs, narr |-> 0,
      origins |-> <<>>, is_seed |-> TRUE, absent |-> {}],
     [id |-> PrimeId(2), score |-> 91, le |-> 1, narr |-> 0,
      origins |-> <<GenId(9)>>, is_seed |-> FALSE, absent |-> {}],
     [id |-> GenId(0), score |-> MissingScore, le |-> MissingTs, narr |-> 0,
      origins |-> <<>>, is_seed |-> TRUE,
      absent |-> {"relevance_score", "last_evaluated", "origin_thought_ids"}]}

InitGen ==
    /\ heap \in SeqsUpTo(Stored(GenSeedFiles), MaxGenInit)
    /\ \E ms \in {<<>>, <<"human">>}, cc \in {{}, {"topic"}} :
          state = [messages |-> ms, core_context |-> cc,
                   thoughts |-> [i \in 1..Len(heap) |-> i],
                   injection_queue |-> <<>>, active_agent |-> "orchestrator",
                   last_handoff_reason |-> "None"]
    /\ fin \in GenStepArgs
    /\ fq = <<>> /\ fout = <<>> /\ fout2 = <<>> /\ fpc = "in"
    /\ node = "END" /\ prev = "START" /\ status = "off" /\ steps = 0
    /\ delta = EmptyDelta
    /\ SwarmIdle
    /\ issued = 0 /\ clock = 3

\* thought_node up to the loop: the early exit, or the slice of the sequence
GenBegin ==
    /\ fpc = "in"
    /\ IF GenEarlyExit(state)
       THEN /\ fout' = [messages |-> <<>>, thoughts |-> <<>>]
            /\ fpc' = "done" /\ idx' = idx
       ELSE /\ fpc' = "loop" /\ idx' = 1 /\ fout' = fout
    /\ UNCHANGED <<heap, graphVars, pc, working, existing, queue, inputN, nEval, nGen,
                   last, issued, clock, fin, fq, fout2>>

\* logger.append raises ahead of the loop (the early exit's note or the note
\* of the cycle's start cannot be written): thought_node raises, no call made
GenLogRaises ==
    /\ fpc = "in"
    /\ fpc' = "raised"
    /\ UNCHANGED <<heap, graphVars, swarmVars, issued, clock, fin, fq, fout, fout2>>

\* GUIDED_PROMPT_SEQUENCE: the six prompt templates, by their subject
GUIDED_PROMPT_SEQUENCE ==
    <<"core_facts", "top_level_keywords", "low_level_details", "question_or_statement",
      "count_steps", "needs_decomposition">>

\* The reply the generation call gives to the prompt of step i
ReplyTo(i) ==
    <<"reply_core_facts", "reply_top_level_keywords", "reply_low_level_details",
      "reply_question_or_statement", "reply_count_steps", "reply_needs_decomposition">>[i]

\* Faulty variant: each step continues the conversation of the step before it
GenInputAccumulates(msgs, log, i) ==
    (IF log = <<>> THEN msgs
     ELSE IF log[Len(log)].ok THEN Append(log[Len(log)].input, log[Len(log)].reply)
     ELSE log[Len(log)].input)
        \o <<GUIDED_PROMPT_SEQUENCE[i]>>

\* input_state = state.copy(); input_state["messages"] =
\* input_state.get("messages", []) + [HumanMessage(content=full_prompt)]:
\* the messages step i is called with; log holds the calls made before it
GenInput(msgs, log, i) == msgs \o <<GUIDED_PROMPT_SEQUENCE[i]>>

\* new_messages: the replies of the calls that succeeded, in call order
RECURSIVE NewMessages(_)
NewMessages(log) ==
    IF log = <<>> THEN <<>>
    ELSE NewMessages(SubSeq(log, 1, Len(log) - 1))
            \o (IF log[Len(log)].ok THEN <<log[Len(log)].reply>> ELSE <<>>)

\* Guided step idx: base_node answers and create_thought builds the Thought
GenStepOk ==
    /\ fpc = "loop" /\ idx <= ActiveLen(fin)
    /\ heap' = Append(heap, NewThought(heap, state, issued + 1))
    /\ fq' = Append(fq, Len(heap) + 1)
    /\ issued' = issued + 1
    /\ nGen' = nGen + 1
    /\ fout2' = Append(fout2, [step |-> idx, ok |-> TRUE,
                                input |-> GenInput(state.messages, fout2, idx),
                                reply |-> ReplyTo(idx)])
    /\ idx' = idx + 1
    /\ UNCHANGED <<graphVars, pc, working, existing, queue, inputN, nEval, last, clock,
                   fin, fout, fpc>>

\* Guided step idx: the generation call raises and the handler breaks
GenStepFail ==
    /\ fpc = "loop" /\ idx <= ActiveLen(fin)
    /\ nGen' = nGen + 1
    /\ fout2' = Append(fout2, [step |-> idx, ok |-> FALSE,
                                input |-> GenInput(state.messages, fout2, idx),
                                reply |-> "none"])
    /\ idx' = GenAfterFailure(idx, ActiveLen(fin))
    /\ UNCHANGED <<heap, graphVars, pc, working, existing, queue, inputN, nEval, last,
                   issued, clock, fin, fq, fout, fpc>>

\* Guided step idx: the generation call raises, and logger.append raises in
\* the handler: thought_node raises and the Thoughts built so far are lost
GenHandlerRaises ==
    /\ fpc = "loop" /\ idx <= ActiveLen(fin)
    /\ nGen' = nGen + 1
    /\ fout2' = Append(fout2, [step |-> idx, ok |-> FALSE,
                                input |-> GenInput(state.messages, fout2, idx),
                                reply |-> "none"])
    /\ fpc' = "raised"
    /\ UNCHANGED <<heap, graphVars, pc, working, existing, queue, idx, inputN, nEval, last,
                   issued, clock, fin, fq, fout>>

\* return {"messages": new_messages, "thoughts": new_thoughts}
GenReturn ==
    /\ fpc = "loop" /\ idx > ActiveLen(fin)
    /\ fout' = [messages |-> NewMessages(fout2), thoughts |-> fq]
    /\ fpc' = "done"
    /\ UNCHANGED <<heap, graphVars, swarmVars, issued, clock, fin, fq, fout2>>

NextGen ==
    \/ GenBegin
    \/ GenLogRaises
    \/ GenStepOk
    \/ GenStepFail
    \/ GenHandlerRaises
    \/ GenReturn

SpecGen == InitGen /\ [][NextGen]_vars

----------------------------------------------------------------------------
(* create_thought called with any initial_relevance around [0, 1] *)

CreateArgs == (0 - RelevanceMargin)..(100 + RelevanceMargin)

InitCreate ==
    /\ heap = <<>>
    /\ fin \in [initial_relevance : CreateArgs, is_seed : BOOLEAN]
    /\ fq = <<>> /\ fout = <<>> /\ fout2 = <<>> /\ fpc = "in"
    /\ GraphOff

\* thought = create_thought(..., initial_relevance=r, is_seed=b): the factory
\* has no failing path for a number, it returns the dict
CreateApply ==
    /\ fpc = "in"
    /\ heap' = Append(heap, create_thought(issued + 1, <<>>, fin.initial_relevance,
                                           fin.is_seed))
    /\ fout' = [ok |-> TRUE, thought |-> Len(heap) + 1]
    /\ issued' = issued + 1
    /\ fpc' = "once"
    /\ UNCHANGED <<graphVars, swarmVars, clock, fin, fq, fout2>>

NextCreate == CreateApply

SpecCreate == InitCreate /\ [][NextCreate]_vars

----------------------------------------------------------------------------
(* swarm_node applied to the state merge_state_updates builds from the delta *)
(* of its previous application.  The first application is the one pass of    *)
(* the diagnostic runner, on the state manual_graph_trace hands to           *)
(* swarm_node, followed by the runner's merge; every further application is  *)
(* swarm_node on that merged state and merge_state_updates on its delta (the *)
(* runner itself goes on to its summary stage and makes no second pass).     *)
(* steps counts the passes that returned.  A pass ends with an exception     *)
(* when its deduplication raises, when an evaluation call raises or when the *)
(* evaluation log cannot be written.                                         *)

\* A state or a delta of the graph run as the dict merge_state_updates is
\* given: the three list keys hold lists, every other key one object
ToPy(d) == [k \in DOMAIN d |-> IF k \in MergeListKeys THEN PyList(d[k]) ELSE PyObj(d[k])]

\* The dict merge_state_updates returns, back as a state of the model
FromPy(d) == [k \in DOMAIN d |-> IF k \in MergeListKeys THEN d[k].items ELSE d[k].items[1]]

\* state = merge_state_updates(state, swarm_update)
Merged(st, d) == FromPy(merge_state_updates(ToPy(st), ToPy(d)).new_state)

\* The seed files of the diagnostic runner: those of a graph run and a later
\* copy of the saved Thought, evaluated once more since (same thought_id, a
\* later last_evaluated, another score)
RunnerSeedFiles ==
    SeedFiles \cup
    {[id |-> GenId(1), score |-> ScoreApplicable, le |-> 2, narr |-> 0,
      origins |-> <<PrimeId(9)>>, is_seed |-> TRUE, absent |-> {}]}

\* initial_relevance of the fallback seed of manual_graph_trace (0.65)
FallbackRelevance == 65

\* seed_thoughts: the loaded seeds, or the one fallback Thought the runner
\* builds when none was loaded (create_thought with is_seed left False)
SeedThoughts(loaded) ==
    IF loaded = <<>> THEN <<create_thought(0, <<>>, FallbackRelevance, FALSE)>> ELSE loaded

\* initial_state of manual_graph_trace, the state thought_gen is called on
TraceInitialState(seeds) ==
    [messages |-> <<"human">>, core_context |-> {"topic"},
     thoughts |-> [i \in 1..Len(seeds) |-> i]]

\* manual_graph_trace up to its swarm pass: the seeds, the Thoughts the
\* generator adds (all_initial_thoughts = seed_thoughts + generated), and the
\* state after the orchestrator's delta was merged into it.  The clock stands
\* after the stamps of the seed files.
InitRepass ==
    /\ \E loaded \in SeqsUpTo(Stored(RunnerSeedFiles), MaxSeeds) :
       \E k \in GenOutcomes(TraceInitialState(SeedThoughts(loaded)), MAX_GUIDED_STEPS) :
          LET seeds == SeedThoughts(loaded)
          IN  /\ k <= MaxGenIds
              /\ heap = seeds \o GenObjects(seeds, TraceInitialState(seeds), 0, k)
              /\ issued = k
    /\ state = Merged([messages |-> <<"human">>, core_context |-> {"topic"},
                       thoughts |-> [i \in 1..Len(heap) |-> i],
                       injection_queue |-> <<>>, active_agent |-> "orchestrator",
                       last_handoff_reason |-> "None"],
                      AgentDelta("orchestrator"))
    /\ node = "END" /\ prev = "START" /\ status = "running" /\ steps = 0
    /\ delta = EmptyDelta
    /\ SwarmIdle
    /\ clock = 3
    /\ HarnessOff

\* The pass returned d: the runner merges it into its state
RepassMerge(d) ==
    /\ state' = Merged(state, d)
    /\ delta' = d
    /\ prev' = "memory_swarm"
    /\ steps' = steps + 1
    /\ UNCHANGED node

\* swarm_update = swarm_node(state), up to the evaluation loop
RepassBegin ==
    /\ status = "running" /\ pc = "idle" /\ steps < MaxPasses
    /\ IF Len(state.thoughts) = 0
       THEN /\ RepassMerge(SwarmEmptyDelta)
            /\ working' = <<>> /\ existing' = {} /\ inputN' = 0 /\ idx' = 0
            /\ pc' = "idle" /\ status' = status
       ELSE LET d == Dedupe(heap, state.thoughts)
            IN  /\ IF d.ok
                   THEN /\ pc' = "loop" /\ status' = status
                        /\ working' = d.val
                        /\ existing' = IdsOf(heap, d.val)
                        /\ inputN' = Len(d.val)
                        /\ idx' = 1
                   ELSE /\ pc' = "idle" /\ status' = "error"
                        /\ working' = <<>> /\ existing' = {} /\ inputN' = 0
                        /\ idx' = 0
                /\ UNCHANGED <<state, node, prev, steps, delta>>
    /\ queue' = <<>> /\ nEval' = 0 /\ nGen' = 0 /\ last' = NoEval
    /\ UNCHANGED <<heap, issued, clock, fnVars>>

\* The loop is exhausted: swarm_node returns and the runner merges the delta
RepassEnd ==
    /\ status = "running" /\ pc = "loop" /\ idx > Len(working)
    /\ pc' = "idle"
    /\ RepassMerge(SwarmDelta(working, queue))
    /\ UNCHANGED <<heap, status, working, existing, queue, idx, inputN, nEval, nGen, last,
                   issued, clock, fnVars>>

NextRepass ==
    \/ RepassBegin
    \/ SwarmEval
    \/ SwarmEvalRaises
    \/ SwarmSinkRaises
    \/ RepassEnd

SpecRepass == InitRepass /\ [][NextRepass]_vars

----------------------------------------------------------------------------
(* Properties *)

LastScore(h, list) == h[list[Len(list)]].score

\* The last element of the list is a Thought: it holds a relevance_score
LastIsScored(h, list) == Len(list) = 0 \/ LastScore(h, list) # MissingScore

\* C1: route_after_memory_swarm returns "thought_generator" exactly when the
\* list is non-empty and its last Thought scores below 0.85; in every other
\* case (empty list, score 0.85 or more) it returns "summary"; no other value.
\* The Thoughts before the last may be any dict; on a last element without a
\* relevance_score, which is no Thought, the router raises KeyError.
C1_RouteContract ==
    fpc = "once" =>
        LET low == Len(fin) > 0 /\ LastScore(heap, fin) < 85
        IN  IF LastIsScored(heap, fin)
            THEN /\ fout \in {"thought_generator", "summary"}
                 /\ (fout = "thought_generator") <=> low
                 /\ (fout = "summary") <=> ~low
            ELSE fout = "KeyError"

\* The router was applied to a list whose last Thought scores exactly 0.85
C1_Witness ==
    /\ fpc = "once" /\ Len(fin) > 1
    /\ LastScore(heap, fin) = 85 /\ heap[fin[1]].score < 85
    /\ fout = "summary"

\* C2: the first stage is the orchestrator, thought_generator is followed by
\* memory_swarm, summary is followed by orchestrator, and thought_generator
\* and summary are scheduled only right after memory_swarm.
C2_StageOrder ==
    /\ prev = "START" => node = "orchestrator"
    /\ prev = "thought_generator" => node = "memory_swarm"
    /\ prev = "summary" => node = "orchestrator"
    /\ node \in {"thought_generator", "summary"} => prev = "memory_swarm"

\* A run went through thought_generator and then through summary
C2_Witness ==
    /\ prev = "summary" /\ node = "orchestrator"
    /\ \E i \in DOMAIN state.messages : state.messages[i] = "thought_generator"

\* C3: once summary has handed back to the orchestrator, the orchestrator's
\* visit ends the invocation (the loop is not entered a second time).
C3_SinglePass ==
    (prev = "orchestrator" /\ \E i \in DOMAIN state.messages : state.messages[i] = "summary")
        => node = "END"

\* C4: a swarm pass evaluates only the Thoughts of its deduplicated input and
\* makes at most 2 generation calls for each of them.
C4_BoundedPass ==
    /\ nEval <= inputN
    /\ nGen <= SwarmMaxSteps * inputN

\* C5: an id present in state.thoughts is still present after every step.
C5_NeverRemoved ==
    [][IdsOf(heap, state.thoughts) \subseteq IdsOf(heap', state'.thoughts)]_vars

\* C6: the score given to the evaluated Thought is 0.85 when the response has a
\* positive keyword and 0.42 otherwise, whatever its earlier score, the
\* conflict keywords and the other Thought; the other Thought keeps its score.
C6_ScoreMapping ==
    fpc = "once" =>
        /\ heap[1].score = IF fin \cap PositiveWords # {} THEN 85 ELSE 42
        /\ heap[2] = fq[2]

\* A Thought that scored 1.00 was evaluated with a response holding a conflict
\* keyword next to a positive one
C6_Witness ==
    /\ fpc = "once"
    /\ "yes" \in fin /\ "outdated" \in fin
    /\ fq[1].score = 100 /\ fq[2].score = 0
    /\ heap[1].score = 85

\* C7: the decision is inject for a score above 0.70; otherwise generate_new
\* with a conflict keyword and reframe without one.
C7_Decision ==
    fpc = "once" =>
        fout.decision =
            IF heap[1].score > 70 THEN "inject"
            ELSE IF fin \cap ConflictWords # {} THEN "generate_new"
            ELSE "reframe"

AboveInject(a) == heap[a].score > 70

\* C8: the injection_queue of a swarm pass is the sequence of the Thoughts
\* evaluated so far whose score is above 0.70, in evaluation order; in the
\* returned delta it is that selection of the returned thoughts.  A score of
\* exactly 0.70 does not pass the injection test, 0.71 does.
C8_QueueContents ==
    /\ pc = "loop" => queue = SelectSeq(SubSeq(working, 1, idx - 1), AboveInject)
    /\ (prev = "memory_swarm" /\ "thoughts" \in DOMAIN delta) =>
            delta.injection_queue = SelectSeq(delta.thoughts, AboveInject)
    /\ ~Injects(70) /\ Injects(71)

\* A returned delta queues one Thought and leaves another out
C8_Witness ==
    /\ prev = "memory_swarm" /\ "thoughts" \in DOMAIN delta
    /\ Len(delta.injection_queue) >= 1
    /\ Len(delta.injection_queue) < Len(delta.thoughts)

\* last_evaluated with None and a missing key counted as the epoch
LeOrEpoch(t) == IF t.le \in {NoneTs, MissingTs} THEN EPOCH ELSE t.le

\* C9: dedupe does not fail, returns one entry per distinct id, and the entry
\* kept for an id has the greatest last_evaluated (None as the epoch) among
\* the entries of that id.
C9_DedupeKeepsLatest ==
    fpc = "once" =>
        /\ fout.ok
        /\ IdsOf(heap, fout.val) = IdsOf(heap, fin)
        /\ \A i, j \in 1..Len(fout.val) :
                heap[fout.val[i]].id = heap[fout.val[j]].id => i = j
        /\ \A i \in 1..Len(fout.val) : \A a \in 1..Len(fin) :
                heap[fin[a]].id = heap[fout.val[i]].id
                    => LeOrEpoch(heap[fin[a]]) <= LeOrEpoch(heap[fout.val[i]])

\* C10: for every list, dedupe applied to the result of dedupe returns that
\* result again, element for element and in the same order.
C10_DedupeIdempotent ==
    fpc = "twice" => (fout.ok /\ fout2.ok /\ fout2.val = fout.val)

\* The items of the list a dict holds under k, none when the key is not set
ItemsAt(d, k) == IF k \in DOMAIN d THEN d[k].items ELSE <<>>

\* C11: for each of messages, thoughts and injection_queue that the update
\* holds as a list, the merged value is the list of the original followed by
\* the list of the update: the lengths add up and every entry of both parts
\* is there, in order, duplicates included.
C11_ListAppend ==
    fpc = "once" =>
        \A k \in MergeListKeys :
            (k \in DOMAIN fin /\ fin[k].isList) =>
                LET s == ItemsAt(fq, k)
                    d == fin[k].items
                    r == fout.new_state[k]
                IN  /\ fout.ok /\ r.isList
                    /\ Len(r.items) = Len(s) + Len(d)
                    /\ \A i \in 1..Len(s) : r.items[i] = s[i]
                    /\ \A j \in 1..Len(d) : r.items[Len(s) + j] = d[j]

\* Two Thoughts were merged onto the same two in the other order
C11_Witness ==
    /\ fpc = "once"
    /\ fq["thoughts"].items = <<"prime-1", "gen-1">>
    /\ "thoughts" \in DOMAIN fin /\ fin["thoughts"] = PyList(<<"gen-1", "prime-1">>)
    /\ fout.new_state["thoughts"].items = <<"prime-1", "gen-1", "gen-1", "prime-1">>

\* C12: the merged state holds the keys of both arguments; a key that is none
\* of the three list keys holds the update's value when the update has the
\* key and the original's otherwise; every key the update lacks keeps the
\* original's value; merging the empty update returns the original state.
C12_ScalarOverwrite ==
    fpc = "once" =>
        /\ fout.ok
        /\ DOMAIN fout.new_state = (DOMAIN fq) \cup (DOMAIN fin)
        /\ \A k \in ((DOMAIN fq) \cup (DOMAIN fin)) \ MergeListKeys :
                fout.new_state[k] = IF k \in DOMAIN fin THEN fin[k] ELSE fq[k]
        /\ \A k \in (DOMAIN fq) \ (DOMAIN fin) : fout.new_state[k] = fq[k]
        /\ (DOMAIN fin = {} => fout.new_state = fq)

\* An update replaced active_agent, brought the new key last_agent and left
\* messages alone
C12_Witness ==
    /\ fpc = "once"
    /\ DOMAIN fin = {"active_agent", "last_agent", "thoughts"}
    /\ fq["active_agent"] = PyObj("orchestrator")
    /\ fout.new_state["active_agent"] = PyObj("memory_swarm")
    /\ fout.new_state["last_agent"] = PyObj("summary")
    /\ fout.new_state["messages"] = fq["messages"]

\* C13: after merge_state_updates returns, the caller's original dict holds
\* the keys and the values, list contents included, it held before the call.
C13_OriginalUntouched ==
    fpc = "once" => fout.original = fq

\* A call that appended to a list and replaced a scalar
C13_Witness ==
    /\ fpc = "once"
    /\ "thoughts" \in DOMAIN fin /\ fin["thoughts"].isList
    /\ Len(fin["thoughts"].items) > 0
    /\ "active_agent" \in DOMAIN fin
    /\ fout.new_state["thoughts"] # fq["thoughts"]
    /\ fout.new_state["active_agent"] # fq["active_agent"]
    /\ fout.original = fq

\* C14: an invocation with max_steps = n makes at most n generation calls and
\* returns at most n new Thoughts (none for a negative n), and never more
\* than the 6 of the guided sequence.
C14_StepCeiling ==
    /\ nGen <= Max(fin, 0) /\ nGen <= 6
    /\ Len(fq) <= Max(fin, 0) /\ Len(fq) <= 6
    /\ fpc = "done" => (Len(fout.thoughts) <= Max(fin, 0) /\ Len(fout.thoughts) <= 6)

\* The entries of the call log that failed
FailedCalls == {c \in DOMAIN fout2 : ~fout2[c].ok}

\* C15: when the generation call of step k fails, it is the last call of the
\* invocation, every step up to k was called exactly once, and the invocation
\* returns the k-1 Thoughts (and messages) of the steps before it.
C15_StopOnFirstFailure ==
    /\ \A c \in DOMAIN fout2 : fout2[c].step = c
    /\ \A c \in FailedCalls : c = Len(fout2) /\ Len(fq) = c - 1
    /\ (fpc = "done" /\ FailedCalls # {}) =>
            /\ FailedCalls = {Len(fout2)}
            /\ fout.thoughts = fq /\ Len(fout.thoughts) = Len(fout2) - 1
            /\ Len(fout.messages) = Len(fout2) - 1
            /\ \A i \in DOMAIN fq : heap[fq[i]].id = GenId(i)
    /\ fpc = "loop" => idx <= ActiveLen(fin) + 1

\* Step 3 of 4 failed and the invocation returned the two Thoughts before it
C15_Witness ==
    /\ fpc = "done" /\ fin = 4
    /\ Len(fout2) = 3 /\ ~fout2[3].ok
    /\ Len(fout.thoughts) = 2

\* C16: an evaluation call that raises does not abort the swarm pass: the
\* invocation keeps running and the loop goes on with the next Thought.
C16_EvalFailureSoft ==
    last.decision = "raised" => (status = "running" /\ pc = "loop")

\* C17: when the nested generation fails (it raises, or one of its steps
\* does), the pass keeps running at the next Thought and the Thought just
\* evaluated holds the score and the last_evaluated of this evaluation; a pass
\* that returns has evaluated every Thought of the list it returns.
C17_NestedFailureCaught ==
    /\ (pc = "loop" /\ last.gen \in {"raised", "partial"}) =>
            /\ status = "running"
            /\ idx <= Len(working) + 1
            /\ heap[last.addr].score = relevance_score(last.resp)
            /\ heap[last.addr].le = clock - 1
    /\ (pc = "idle" /\ prev = "memory_swarm" /\ "thoughts" \in DOMAIN delta) =>
            nEval = Len(delta.thoughts)

\* Generation calls of the pass that failed: the calls made less the Thoughts
\* they added to the working list
FailedGenCalls == nGen - (Len(working) - inputN)

\* A pass returned its delta after a nested generation had failed for a
\* Thought and a later Thought had been evaluated
C17_Witness ==
    /\ pc = "idle" /\ prev = "memory_swarm" /\ "thoughts" \in DOMAIN delta
    /\ status = "running"
    /\ FailedGenCalls > 0
    /\ last.gen = "none" /\ nEval >= 2

\* C18: a Thought whose evaluation call returns no content (None or the empty
\* string) is skipped: it keeps its relevance_score, last_evaluated and
\* narrative, is not queued, and no generation is triggered for it.
C18_EmptyResponseSkipped ==
    (fpc = "once" /\ delta.messages[1].kind \in {"None", "empty"}) =>
        /\ heap[1] = fq[1]
        /\ fout.queue = <<>>
        /\ ~fout.generates

\* C19: create_thought fails, and produces no Thought, for an
\* initial_relevance outside [0, 1]; every Thought it produces has its
\* relevance_score within [0, 1].
C19_RelevanceValidated ==
    fpc = "once" =>
        /\ (fin.initial_relevance \notin 0..100) => (~fout.ok /\ heap = <<>>)
        /\ \A a \in DOMAIN heap : heap[a].score \in 0..100

\* First occurrences of the items of a list, in order: the ids
\* _deduplicate_thoughts keeps
RECURSIVE FirstOccurrences(_)
FirstOccurrences(s) ==
    IF s = <<>> THEN <<>>
    ELSE LET r == FirstOccurrences(SubSeq(s, 1, Len(s) - 1))
         IN  r \o NotIn(<<s[Len(s)]>>, r)

\* update is a delta swarm_node can return for the state original: the empty
\* pass, or the deduplicated Thoughts followed by generated ones, a queue
\* selected from them and the active_agent mark
SwarmDeltaOn(original, update) ==
    /\ "active_agent" \in DOMAIN update /\ "injection_queue" \in DOMAIN update
    /\ update["active_agent"] = PyObj("memory_swarm")
    /\ IF original["thoughts"].items = <<>>
       THEN /\ DOMAIN update = {"injection_queue", "active_agent"}
            /\ update["injection_queue"] = PyList(<<>>)
       ELSE /\ DOMAIN update = {"thoughts", "injection_queue", "active_agent"}
            /\ update["thoughts"].isList
            /\ LET w == update["thoughts"].items
                   u == FirstOccurrences(original["thoughts"].items)
               IN  /\ FirstOccurrences(w) = w
                   /\ Len(w) >= Len(u) /\ SubSeq(w, 1, Len(u)) = u

\* C20: after a swarm pass's delta is merged into the state, injection_queue
\* holds exactly the Thoughts the pass queued, none of an earlier pass.
C20_QueueRebuilt ==
    (fpc = "once" /\ SwarmDeltaOn(fq, fin)) =>
        fout.new_state["injection_queue"] = fin["injection_queue"]

\* C21: in the delta of a swarm pass that has Thoughts, every element of
\* injection_queue is an element of the returned thoughts list (the same
\* object); so is every element queued while the pass is running.
C21_QueueWithinThoughts ==
    /\ (prev = "memory_swarm" /\ "thoughts" \in DOMAIN delta) =>
            \A i \in DOMAIN delta.injection_queue :
                \E j \in DOMAIN delta.thoughts :
                    delta.injection_queue[i] = delta.thoughts[j]
    /\ pc = "loop" =>
            \A i \in DOMAIN queue : \E j \in DOMAIN working : queue[i] = working[j]

\* A returned delta queues a Thought that was generated during the pass
C21_Witness ==
    /\ prev = "memory_swarm" /\ "thoughts" \in DOMAIN delta
    /\ \E i \in DOMAIN delta.injection_queue :
            /\ heap[delta.injection_queue[i]].id[1] = "gen"
            /\ delta.injection_queue[i] > inputN
    /\ Len(delta.thoughts) > Len(delta.injection_queue)

\* C22: after a stage has run and its delta is applied, active_agent in the
\* shared state names that stage.
C22_ActiveAgentNamesStage ==
    prev \in Nodes => state.active_agent = prev

\* C23: the stage the router chose for a state is the stage it chooses for
\* every state with the same thoughts and another injection_queue, empty or
\* holding any one of the Thoughts.
C23_QueueIrrelevant ==
    fpc = "once" =>
        \A q \in {<<>>} \cup {<<a>> : a \in DOMAIN heap} :
            route_after_memory_swarm(heap, fin, q) = fout

\* The router was applied with a non-empty queue to a list it sends to summary
\* and whose first Thought scores low
C23_Witness ==
    /\ fpc = "once" /\ Len(fq) > 0 /\ Len(fin) > 1
    /\ heap[fin[1]].score < 85 /\ heap[fin[Len(fin)]].score >= 85
    /\ fout = "summary"

\* No two positions of the list hold Thoughts with the same id
UniqueIds(h, list) ==
    \A i, j \in DOMAIN list : h[list[i]].id = h[list[j]].id => i = j

\* C24: the thoughts list a swarm pass returns holds no two Thoughts with the
\* same thought_id, and neither does the working list while the pass runs:
\* the list the loop starts from holds every id of the input once, and a
\* generated Thought joins it only when its id is not in it yet.
C24_UniqueIdsReturned ==
    /\ (prev = "memory_swarm" /\ "thoughts" \in DOMAIN delta) =>
            UniqueIds(heap, delta.thoughts)
    /\ pc = "loop" =>
            /\ UniqueIds(heap, working)
            /\ IdsOf(heap, state.thoughts) \subseteq IdsOf(heap, working)
            /\ existing = IdsOf(heap, working)

\* A pass is about to return whose input held two Thoughts with one id, of
\* which the list kept one, and in which a generated Thought (never evaluated,
\* score 0.68) whose id was already known was left out of the list
C24_Witness ==
    /\ status = "running" /\ pc = "loop" /\ idx > Len(working)
    /\ inputN < Len(state.thoughts)
    /\ \E i, j \in DOMAIN state.thoughts :
            /\ state.thoughts[i] # state.thoughts[j]
            /\ heap[state.thoughts[i]].id = heap[state.thoughts[j]].id
    /\ nGen >= 1
    /\ \E a \in DOMAIN heap :
            /\ \A j \in DOMAIN working : working[j] # a
            /\ heap[a].score = DEFAULT_RELEVANCE_NEW /\ heap[a].le = NoneTs
            /\ heap[a].id \in IdsOf(heap, working)

\* C25: a swarm pass that finds thoughts empty returns the delta with exactly
\* the keys injection_queue (empty) and active_agent (memory_swarm), and makes
\* no evaluation and no generation call: no Thought is created or changed.
C25_EmptyPass ==
    [][(node = "memory_swarm" /\ pc = "idle" /\ Len(state.thoughts) = 0
            /\ prev' = "memory_swarm")
        => /\ DOMAIN delta' = {"injection_queue", "active_agent"}
           /\ delta'.injection_queue = <<>>
           /\ delta'.active_agent = "memory_swarm"
           /\ nEval' = 0 /\ nGen' = 0
           /\ heap' = heap /\ issued' = issued /\ pc' = "idle"]_vars

\* An empty pass has returned after the thought generator produced nothing
C25_Witness ==
    /\ prev = "memory_swarm" /\ pc = "idle"
    /\ state.thoughts = <<>> /\ delta = SwarmEmptyDelta
    /\ Len(heap) > 0
    /\ state.active_agent = "memory_swarm" /\ nEval = 0

\* The state has neither message history nor core_context
NoContext == Len(state.messages) = 0 /\ state.core_context = {}

\* C26 as stated: an invocation returns {messages: [], thoughts: []} without
\* a generation call exactly when the state has neither message history nor
\* core_context.
C26_EarlyExitExactly ==
    fpc = "done" =>
        ((nGen = 0 /\ fout = [messages |-> <<>>, thoughts |-> <<>>]) <=> NoContext)

\* C26 as amended: without context the invocation returns the empty delta and
\* makes no generation call; with messages or core_context it makes the call
\* of guided step 1 unless max_steps leaves no step (0, or -6 and below), and
\* an invocation without any call returns the empty delta.  An invocation
\* whose log cannot be written raises and returns no delta.
C26_EarlyExitOrNoSteps ==
    /\ NoContext => nGen = 0
    /\ fpc = "done" =>
        /\ nGen = 0 <=> (NoContext \/ fin = 0 \/ fin <= -6)
        /\ nGen = 0 => fout = [messages |-> <<>>, thoughts |-> <<>>]
    /\ fpc = "raised" => fout = <<>>

\* An invocation on a state with core_context and no messages made a call
C26_Witness ==
    /\ fpc = "done"
    /\ Len(state.messages) = 0 /\ state.core_context # {}
    /\ nGen >= 1 /\ Len(fout.thoughts) >= 1

\* s is a prefix of t
IsPrefix(s, t) == Len(s) <= Len(t) /\ SubSeq(t, 1, Len(s)) = s

\* C27: in every step of a run the messages of the shared state before the
\* step are a prefix of the messages after it.
C27_MessagesAppendOnly ==
    [][IsPrefix(state.messages, state'.messages)]_vars

\* The messages of the orchestrator, the generator and the summary stand
\* behind the human message, in the order the stages ran
C27_Witness ==
    /\ Len(state.messages) >= 4
    /\ state.messages[1] = "human" /\ state.messages[2] = "orchestrator"
    /\ state.messages[3] = "thought_generator"
    /\ state.messages[Len(state.messages)] = "summary"

\* C28: a failing event sink does not fail the stage: after the evaluation
\* log of a Thought could not be written the invocation is still running and
\* the pass goes on.
C28_SinkFailureHarmless ==
    last.decision = "sink_raised" => (status = "running" /\ pc = "loop")

\* The ids of the prime- Thoughts of the state's list, in list order
RECURSIVE PrimeIdsIn(_, _)
PrimeIdsIn(h, list) ==
    IF list = <<>> THEN <<>>
    ELSE LET id == h[Head(list)].id
         IN  (IF id[1] = "prime" THEN <<id>> ELSE <<>>) \o PrimeIdsIn(h, Tail(list))

\* C30: every Thought the generator has produced, and every Thought of the
\* delta it returns, has a gen- id, is_seed False, relevance_score 0.68,
\* last_evaluated None and as origin_thought_ids the ids of all prime-
\* Thoughts of the input state in state order.
C30_GeneratedThoughtShape ==
    /\ \A i \in DOMAIN fq :
            LET t == heap[fq[i]]
            IN  /\ t.id[1] = "gen" /\ ~t.is_seed
                /\ t.score = 68 /\ t.le = NoneTs
                /\ t.origins = PrimeIdsIn(heap, state.thoughts)
    /\ fpc = "done" => fout.thoughts = fq

\* Two Thoughts were returned for a state holding a prime, a generated
\* Thought and a second prime, in that order
C30_Witness ==
    /\ fpc = "done" /\ Len(fout.thoughts) = 2
    /\ Len(state.thoughts) = 3
    /\ heap[state.thoughts[1]].id = PrimeId(2)
    /\ heap[state.thoughts[2]].id = GenId(0)
    /\ heap[state.thoughts[3]].id = PrimeId(1)
    /\ heap[fout.thoughts[2]].origins = <<PrimeId(2), PrimeId(1)>>

\* C29: in every step of a run every existing Thought keeps its thought_id,
\* is_seed and origins; a Thought changes at all only in the swarm loop's
\* evaluation of that very Thought, which leaves everything but
\* relevance_score, last_evaluated and narrative alone and changes the
\* narrative only on reframe.
C29_OnlySwarmMutates ==
    [][\A a \in DOMAIN heap :
            /\ a \in DOMAIN heap'
            /\ heap'[a].id = heap[a].id
            /\ heap'[a].is_seed = heap[a].is_seed
            /\ heap'[a].origins = heap[a].origins
            /\ heap'[a] # heap[a] =>
                    /\ pc = "loop" /\ idx <= Len(working) /\ working[idx] = a
                    /\ nEval' = nEval + 1
            /\ heap'[a].narr # heap[a].narr => last'.decision = "reframe"]_vars

\* A Thought generated in the run was re-framed by a later evaluation while
\* another Thought exists
C29_Witness ==
    /\ last.decision = "reframe" /\ last.addr \in DOMAIN heap
    /\ heap[last.addr].narr = 1 /\ heap[last.addr].id[1] = "gen"
    /\ heap[last.addr].origins # <<>>
    /\ Len(heap) >= 2

\* The thought_ids of the Thoughts of a list, in list order
IdSeq(h, list) == [i \in DOMAIN list |-> h[list[i]].id]

\* C31: a call of dedupe that returns lists one Thought per id, each taken
\* from the input, in the order in which the ids first appear in the input;
\* the call leaves the input list and every Thought as they were.
C31_DedupeOrder ==
    [][(fpc = "in" /\ fpc' = "once") =>
            /\ heap' = heap /\ fin' = fin
            /\ fout'.ok =>
                    /\ IdSeq(heap', fout'.val) = FirstOccurrences(IdSeq(heap, fin))
                    /\ \A i \in DOMAIN fout'.val :
                            \E j \in DOMAIN fin : fout'.val[i] = fin[j]]_vars

\* The version kept for the first id of the list is its third element, and
\* it stands before the second element in the result
C31_Witness ==
    /\ fpc = "once" /\ fout.ok
    /\ Len(fin) = 3
    /\ heap[fin[1]].id = heap[fin[3]].id /\ heap[fin[2]].id # heap[fin[1]].id
    /\ fout.val = <<fin[3], fin[2]>>

\* C32: the Thoughts appended by mismatch-triggered generation during a pass
\* (those behind the deduplicated input in the working list) are not evaluated
\* in that pass: the pass makes at most one evaluation call per input Thought,
\* the loop never stands beyond the input, and the appended Thoughts stay at
\* last_evaluated None and relevance 0.68 until the pass returns them.
C32_GeneratedNotEvaluated ==
    /\ pc = "loop" =>
            /\ idx <= inputN + 1
            /\ \A j \in DOMAIN working :
                    j > inputN => /\ heap[working[j]].le = NoneTs
                                  /\ heap[working[j]].score = DEFAULT_RELEVANCE_NEW
    /\ (pc = "idle" /\ prev = "memory_swarm" /\ "thoughts" \in DOMAIN delta) =>
            \A j \in DOMAIN delta.thoughts :
                j > inputN => /\ heap[delta.thoughts[j]].le = NoneTs
                              /\ heap[delta.thoughts[j]].score = DEFAULT_RELEVANCE_NEW

\* The thought_generator stage has completed a visit that produced a Thought
GeneratorRan ==
    \E i \in DOMAIN state.messages : state.messages[i] = "thought_generator"

\* C33: whenever the router has selected thought_generator, the run later
\* reaches a state in which the router has selected summary.  A run in which
\* a call raises is left aside, and so is a run that meets the superstep
\* budget before the generator stage has produced anything.
C33_CycleEnds ==
    (node = "thought_generator" /\ status = "running")
        ~> \/ node = "summary"
           \/ status = "error"
           \/ (status = "recursion_limit" /\ ~GeneratorRan)

\* C34: in every superstep of the compiled graph, the shared state after the
\* stage equals, key by key, merge_state_updates(state before, delta of the
\* stage); the thoughts and injection_queue of the delta are appended.
C34_GraphAppliesMerge ==
    [][steps' = steps + 1 =>
            LET merged == merge_state_updates(ToPy(state), ToPy(delta'))
            IN  /\ merged.ok
                /\ \A k \in StateKeys : ToPy(state')[k] = merged.new_state[k]]_vars

\* C35: a swarm pass on the state that the merge of the previous pass's delta
\* left does not fail on that state: its deduplication does not raise, its
\* working list holds every id of the state once, and the thoughts it returns
\* hold one Thought per id of the state.  Every Thought a pass returns carries
\* the stamp of its evaluation: no pass hands a last_evaluated of None to the
\* next one.  Such a pass ends with an exception only when an evaluation call
\* raises or the evaluation log cannot be written, as in any pass.
C35_RepassSound ==
    /\ (steps >= 1 /\ pc = "idle" /\ status = "running") =>
            Dedupe(heap, state.thoughts).ok
    /\ (steps >= 1 /\ status = "error") =>
            /\ pc = "loop" /\ last.decision \in {"raised", "sink_raised"}
    /\ (steps >= 1 /\ pc = "loop") =>
            /\ UniqueIds(heap, working)
            /\ IdsOf(heap, state.thoughts) \subseteq IdsOf(heap, working)
    /\ (steps >= 1 /\ pc = "idle" /\ "thoughts" \in DOMAIN delta) =>
            \A i \in DOMAIN delta.thoughts :
                heap[delta.thoughts[i]].le \notin {NoneTs, MissingTs}
    /\ (steps >= 2 /\ pc = "idle" /\ "thoughts" \in DOMAIN delta) =>
            /\ UniqueIds(heap, delta.thoughts)
            /\ IdsOf(heap, delta.thoughts) = IdsOf(heap, state.thoughts)

\* The second pass returned: its input, the first pass's input followed by
\* the first pass's list, held more Thoughts than ids, and the list returned
\* is shorter than that input
C35_Witness ==
    /\ status = "running" /\ steps >= 2 /\ pc = "idle"
    /\ "thoughts" \in DOMAIN delta /\ Len(delta.thoughts) >= 2
    /\ inputN < Len(state.thoughts) - Len(delta.thoughts)
    /\ inputN = Cardinality(IdsOf(heap, SubSeq(state.thoughts, 1,
                                   Len(state.thoughts) - Len(delta.thoughts))))

\* a stands in the list
InList(list, a) == \E j \in DOMAIN list : list[j] = a

\* C36: the evaluation of a Thought in a swarm pass appends the re-frame
\* marker to its narrative, once, exactly when the decision is reframe, which
\* is exactly when the score is 0.42 and the response has no conflict keyword;
\* an injected Thought and one that triggers generation keep their narrative.
\* A pass evaluates no Thought twice (the working list holds each Thought once
\* and the queue holds only evaluated ones), so no Thought is re-framed and
\* queued in one pass.
C36_ReframeOnly ==
    [][/\ pc = "loop" =>
            /\ \A i, j \in DOMAIN working : working[i] = working[j] => i = j
            /\ \A i \in DOMAIN queue : \E j \in 1..(idx - 1) : working[j] = queue[i]
       /\ (pc = "loop" /\ idx' = idx + 1) =>
            LET a == working[idx]
                reframe == last'.decision = "reframe"
            IN  /\ last'.addr = a
                /\ reframe <=> (heap'[a].score = ScoreOther /\ ~has_conflict(last'.resp))
                /\ heap'[a].narr = IF reframe THEN heap[a].narr + 1 ELSE heap[a].narr
                /\ reframe => (~InList(queue', a) /\ last'.gen = "none")
                /\ InList(queue', a) => heap'[a].narr = heap[a].narr
                /\ \A b \in DOMAIN heap : b # a => heap'[b].narr = heap[b].narr]_vars

\* In one pass a Thought was queued, a Thought generated for a mismatch, and
\* a generated Thought then re-framed: the re-framed one is not in the queue
C36_Witness ==
    /\ pc = "loop" /\ last.decision = "reframe"
    /\ heap[last.addr].narr = 1 /\ ~InList(queue, last.addr)
    /\ Len(queue) >= 1 /\ nGen >= 1
    /\ \E b \in DOMAIN heap : InList(working, b) /\ heap[b].score = ScoreOther
                                /\ heap[b].narr = 0 /\ heap[b].le # NoneTs /\ b # last.addr

\* C37: right after a swarm pass that evaluated the last Thought of the list
\* it returns, the router has selected summary exactly when that Thought is in
\* the returned injection_queue and thought_generator exactly when it is not;
\* both thresholds put 0.85 on one side and 0.42 on the other.
C37_RouterFollowsQueue ==
    /\ (prev = "memory_swarm" /\ pc = "idle" /\ "thoughts" \in DOMAIN delta
            /\ Len(delta.thoughts) > 0 /\ last.addr = delta.thoughts[Len(delta.thoughts)]) =>
            LET queued == InList(delta.injection_queue, delta.thoughts[Len(delta.thoughts)])
            IN  /\ node = "summary" <=> queued
                /\ node = "thought_generator" <=> ~queued
    /\ Injects(ScoreApplicable) /\ ~(ScoreApplicable < THRESHOLD)
    /\ ~Injects(ScoreOther) /\ ScoreOther < THRESHOLD

\* A pass returned two Thoughts, queued only the last one, and the router
\* selected summary
C37_Witness ==
    /\ prev = "memory_swarm" /\ pc = "idle" /\ "thoughts" \in DOMAIN delta
    /\ Len(delta.thoughts) = 2
    /\ delta.injection_queue = <<delta.thoughts[2]>>
    /\ last.addr = delta.thoughts[2]
    /\ heap[delta.thoughts[1]].score = ScoreOther
    /\ node = "summary"

\* C38: an invocation of the generator leaves the state and every Thought it
\* was given as they are; call c of the invocation is guided step c and is
\* given the messages of the state followed by the prompt of step c alone;
\* the delta holds, in step order, the reply and the Thought of every step
\* that succeeded, one of each.
C38_StepsIndependent ==
    [][/\ state' = state
       /\ \A a \in DOMAIN heap : a \in DOMAIN heap' /\ heap'[a] = heap[a]
       /\ \A c \in DOMAIN fout2' :
            /\ fout2'[c].step = c
            /\ fout2'[c].input = Append(state.messages, GUIDED_PROMPT_SEQUENCE[c])
       /\ (fpc' = "done" /\ fpc = "loop") =>
            LET okCalls == {c \in DOMAIN fout2 : fout2[c].ok}
            IN  /\ okCalls = 1..Cardinality(okCalls)
                /\ Len(fout'.thoughts) = Cardinality(okCalls)
                /\ Len(fout'.messages) = Cardinality(okCalls)
                /\ \A i \in okCalls :
                        /\ fout'.messages[i] = ReplyTo(i)
                        /\ fout'.thoughts[i] = Len(state.thoughts) + i
                        /\ heap[fout'.thoughts[i]].id = GenId(i)]_vars

\* Three steps succeeded on a state with one message, and the third was
\* called with that message and its own prompt only
C38_Witness ==
    /\ fpc = "done" /\ state.messages = <<"human">>
    /\ Len(fout2) = 4 /\ ~fout2[4].ok
    /\ fout2[3].input = <<"human", "low_level_details">>
    /\ fout.messages = <<"reply_core_facts", "reply_top_level_keywords",
                         "reply_low_level_details">>
    /\ Len(fout.thoughts) = 3 /\ Len(state.thoughts) >= 1

\* C39: in a run from factory-created Thoughts (last_evaluated None), the
\* last_evaluated of a Thought changes only in the evaluation of that Thought
\* by a swarm pass, every such evaluation sets it, it never returns to None,
\* and a Thought comes into being with None: so it is None exactly for the
\* Thoughts no pass has evaluated.  Every Thought whose last_evaluated is set
\* has relevance_score 0.85 or 0.42.
C39_StampMeansEvaluated ==
    [][/\ \A a \in DOMAIN heap :
            heap[a].le # NoneTs => heap[a].score \in {ScoreApplicable, ScoreOther}
       /\ \A a \in DOMAIN heap' :
            LET evaluated == /\ pc = "loop" /\ idx' = idx + 1
                             /\ working[idx] = a
            IN  IF a \in DOMAIN heap
                THEN /\ evaluated => (heap'[a].le # NoneTs /\ heap'[a].le # heap[a].le)
                     /\ ~evaluated => heap'[a].le = heap[a].le
                     /\ heap[a].le # NoneTs => heap'[a].le # NoneTs
                ELSE heap'[a].le = NoneTs]_vars

\* In a pass the first Thought was evaluated and triggered the generation of
\* two Thoughts, of which one has been evaluated since and one not yet
C39_Witness ==
    /\ pc = "loop" /\ Len(heap) >= 3
    /\ heap[1].le # NoneTs /\ heap[1].score = ScoreApplicable
    /\ \E a \in DOMAIN heap : /\ heap[a].id[1] = "gen" /\ heap[a].le # NoneTs
                                /\ heap[a].score = ScoreOther /\ a > 1
    /\ \E b \in DOMAIN heap : heap[b].le = NoneTs /\ heap[b].score = DEFAULT_RELEVANCE_NEW

====
